---------------------------- MODULE Spec2Model ----------------------------
(***************************************************************************)
(* Model of the charging-station pipelines of ne-ebike-pev:                *)
(*   scripts/fetch_charging_stations.py  (NREL pipeline: fetch, process,   *)
(*                                        filter, save)                    *)
(*   scripts/scrape_plugshare.py         (PlugShare pipeline: sample data, *)
(*                                        save)                            *)
(*                                                                         *)
(* Python values are tagged records: None is [t |-> "null"], a str is      *)
(* [t |-> "str", s |-> ...], a number is [t |-> "num", n |-> ...], a list  *)
(* is [t |-> "list", l |-> <<...>>], a dict is a function from key to      *)
(* value.  Connector identifiers are sequences of characters, because the  *)
(* code looks at their prefixes (str.startswith).                          *)
(***************************************************************************)
EXTENDS Integers, Sequences, FiniteSets, TLC

VARIABLES
    response,        \* what the upstream API answers: [status, body, exc]
    pc,              \* position of main() of fetch_charging_stations.py
    err,             \* the exception that ended main(), "none" if none
    data,            \* main's local `data`
    stations,        \* main's local `stations`
    ebike_friendly,  \* main's local `ebike_friendly`
    saved,           \* the outputs save_stations has written in this run, in order
    files,           \* the file system: path -> persisted document
    plug_pc,         \* position of main() of scrape_plugshare.py
    plug_saved       \* the outputs save_charging_data has written

vars == <<response, pc, err, data, stations, ebike_friendly, saved, files,
          plug_pc, plug_saved>>

---------------------------------------------------------------------------
(* Bounds of the model *)

\* longest list of raw records the upstream API returns
MaxStations == 2
\* longest connector list of one raw record
MaxConnectors == 2

---------------------------------------------------------------------------
(* Python values *)

None == [t |-> "null"]
Str(s) == [t |-> "str", s |-> s]
Num(n) == [t |-> "num", n |-> n]
List(l) == [t |-> "list", l |-> l]
Dict(d) == [t |-> "dict", d |-> d]

\* Python truthiness (`not data`, `x or 0`)
Truthy(v) ==
    CASE v.t = "null" -> FALSE
      [] v.t = "str"  -> v.s # ""
      [] v.t = "num"  -> v.n # 0
      [] v.t = "list" -> v.l # <<>>
      [] v.t = "dict" -> DOMAIN v.d # {}

\* dict.get(key, default)
Get(d, key, default) == IF key \in DOMAIN d THEN d[key] ELSE default

\* str.startswith(prefix) on sequences of characters
StartsWith(c, prefix) ==
    /\ Len(c) >= Len(prefix)
    /\ \A i \in 1..Len(prefix) : c[i] = prefix[i]

NEMA == <<"N", "E", "M", "A">>
J1772 == <<"J", "1", "7", "7", "2">>
NEMA515 == NEMA \o <<"5", "1", "5">>
J1772COMBO == J1772 \o <<"C", "O", "M", "B", "O">>
CHADEMO == <<"C", "H", "A", "D", "E", "M", "O">>


---------------------------------------------------------------------------
(* fetch_charging_stations.py *)

\* fetch_all_stations without the status check of line 48
MutFetchAllStations(resp) ==
    IF resp.exc # "none"
    THEN [ok |-> FALSE, exc |-> resp.exc]
    ELSE IF "total_results" \notin DOMAIN resp.body
         THEN [ok |-> FALSE, exc |-> "KeyError"]
         ELSE [ok |-> TRUE, val |-> Dict(resp.body)]

\* fetch_all_stations: what it hands back for an upstream response.
\* The exception of requests.get when the request itself fails (line 46);
\* None on a status other than 200; a KeyError when the body has no
\* 'total_results' (line 54); the parsed body otherwise.
FetchAllStations(resp) ==
    IF resp.exc # "none"
    THEN [ok |-> FALSE, exc |-> resp.exc]
    ELSE IF resp.status # 200
         THEN [ok |-> TRUE, val |-> None]
         ELSE IF "total_results" \notin DOMAIN resp.body
              THEN [ok |-> FALSE, exc |-> "KeyError"]
              ELSE [ok |-> TRUE, val |-> Dict(resp.body)]

\* has_nema = any(c.startswith('NEMA') for c in connectors)
HasNema(connectors) ==
    \E i \in 1..Len(connectors) : StartsWith(connectors[i], NEMA)

\* has_j1772 = 'J1772' in connectors
HasJ1772(connectors) ==
    \E i \in 1..Len(connectors) : connectors[i] = J1772

\* the categories with J1772 tested before NEMA
MutCategorize(connectors) ==
    IF HasJ1772(connectors)
    THEN [chargerType |-> "J1772", icon |-> "high-voltage"]
    ELSE IF HasNema(connectors)
         THEN [chargerType |-> "NEMA", icon |-> "electric-plug"]
         ELSE [chargerType |-> "Other", icon |-> "battery"]

\* the if / elif / else of process_stations: charger_type and icon
Categorize(connectors) ==
    IF HasNema(connectors)
    THEN [chargerType |-> "NEMA", icon |-> "electric-plug"]
    ELSE IF HasJ1772(connectors)
         THEN [chargerType |-> "J1772", icon |-> "high-voltage"]
         ELSE [chargerType |-> "Other", icon |-> "battery"]

\* `x or 0`
OrZero(v) == IF Truthy(v) THEN v ELSE Num(0)

\* the dict literal `processed` of process_stations
Processed(station, connectors) ==
    [ id            |-> station["id"],
      name          |-> Get(station, "station_name", Str("Unknown")),
      address       |-> Get(station, "street_address", Str("")),
      city          |-> Get(station, "city", Str("")),
      state         |-> Get(station, "state", Str("")),
      zip           |-> Get(station, "zip", Str("")),
      lat           |-> Get(station, "latitude", None),
      lng           |-> Get(station, "longitude", None),
      phone         |-> Get(station, "station_phone", None),
      hours         |-> Get(station, "access_days_time", Str("")),
      pricing       |-> Get(station, "ev_pricing", Str("Unknown")),
      network       |-> Get(station, "ev_network", Str("Non-Networked")),
      connectors    |-> connectors,
      chargerType   |-> Str(Categorize(connectors.l).chargerType),
      icon          |-> Str(Categorize(connectors.l).icon),
      level1Count   |-> OrZero(Get(station, "ev_level1_evse_num", Num(0))),
      level2Count   |-> OrZero(Get(station, "ev_level2_evse_num", Num(0))),
      dcFastCount   |-> OrZero(Get(station, "ev_dc_fast_num", Num(0))),
      facilityType  |-> Get(station, "facility_type", Str("")),
      lastConfirmed |-> Get(station, "date_last_confirmed", Str("")) ]

\* One turn of the loop of process_stations.  Iterating a connectors value
\* that is no list (None) raises TypeError at line 68; a record without
\* 'id' raises KeyError at line 83.
ProcessOne(station) ==
    LET connectors == Get(station, "ev_connector_types", List(<<>>))
    IN  IF connectors.t # "list"
        THEN [ok |-> FALSE, exc |-> "TypeError"]
        ELSE IF "id" \notin DOMAIN station
             THEN [ok |-> FALSE, exc |-> "KeyError"]
             ELSE [ok |-> TRUE, val |-> Processed(station, connectors)]

RECURSIVE ProcessLoop(_, _, _)
ProcessLoop(raw, i, acc) ==
    IF i > Len(raw)
    THEN [ok |-> TRUE, val |-> acc]
    ELSE LET one == ProcessOne(raw[i])
         IN  IF one.ok
             THEN ProcessLoop(raw, i + 1, Append(acc, one.val))
             ELSE one

\* process_stations(data), data a dict
ProcessStations(d) ==
    ProcessLoop(Get(d, "fuel_stations", <<>>), 1, <<>>)

\* has_relevant with the classifier's tests: NEMA by prefix, J1772 by
\* membership
MutHasRelevant(station) ==
    LET connectors == Get(station, "connectors", List(<<>>)).l
    IN  HasNema(connectors) \/ HasJ1772(connectors)

\* has_relevant of filter_ebike_friendly
HasRelevant(station) ==
    LET connectors == Get(station, "connectors", List(<<>>)).l
    IN  \E i \in 1..Len(connectors) :
            \E prefix \in {NEMA, J1772} : StartsWith(connectors[i], prefix)

RECURSIVE FilterLoop(_, _, _)
FilterLoop(sts, i, acc) ==
    IF i > Len(sts)
    THEN acc
    ELSE FilterLoop(sts, i + 1,
                    IF HasRelevant(sts[i]) THEN Append(acc, sts[i]) ELSE acc)

\* the filter's loop started one station late
MutFilterEbikeFriendly(sts) == FilterLoop(sts, 2, <<>>)

\* filter_ebike_friendly(stations)
FilterEbikeFriendly(sts) == FilterLoop(sts, 1, <<>>)

\* d[key] = d.get(key, 0) + 1
Incr(d, key) ==
    IF key \in DOMAIN d
    THEN [d EXCEPT ![key] = @ + 1]
    ELSE (key :> 1) @@ d

RECURSIVE CountBy(_, _, _, _, _)
CountBy(sts, field, default, i, acc) ==
    IF i > Len(sts)
    THEN acc
    ELSE CountBy(sts, field, default, i + 1,
                 Incr(acc, Get(sts[i], field, default)))

\* by_state of save_stations
ByState(sts) == CountBy(sts, "state", Str("Unknown"), 1, <<>>)

\* by_type of save_stations
ByType(sts) == CountBy(sts, "chargerType", Str("Unknown"), 1, <<>>)

\* the document save_stations dumps (lastUpdated, the run's wall-clock
\* time, is left out)
SaveStationsOutput(sts) ==
    [ stations |-> sts,
      metadata |-> [ source        |-> "NREL Alternative Fuel Data Center",
                     sourceUrl     |-> "https://afdc.energy.gov/stations/",
                     totalStations |-> Len(sts),
                     byState       |-> ByState(sts),
                     byType        |-> ByType(sts) ] ]

\* sorted(d.items()) of the report save_stations prints after the dump:
\* comparing a None key with a str key raises TypeError
SortedRaises(d) ==
    \E k1, k2 \in DOMAIN d : k1.t # k2.t

\* whether save_stations raises (lines 163 and 166), the file being written
SaveStationsRaises(sts) ==
    SortedRaises(ByState(sts)) \/ SortedRaises(ByType(sts))

AllPath == "data/charging_stations_all.json"
EbikePath == "data/charging_stations.json"


---------------------------------------------------------------------------
(* scrape_plugshare.py *)

CONNECTOR_TYPES ==
    (1 :> "NEMA 5-15 (Wall Outlet)") @@ (2 :> "J1772") @@ (6 :> "NEMA 14-50")

\* fetch_plugshare_data: the three sample stations (coordinates in units
\* of 1/10000 degree)
FetchPlugshareData ==
    << [ id |-> Str("sample-1"), name |-> Str("Portland Public Library"),
         address |-> Str("5 Monument Square, Portland, ME"),
         lat |-> Num(436591), lng |-> Num(-702568), state |-> Str("ME"),
         connectorType |-> Str("J1772"), connectorId |-> Num(2),
         access |-> Str("Public"), hours |-> Str("24/7"),
         cost |-> Str("Free"), network |-> Str("ChargePoint") ],
       [ id |-> Str("sample-2"), name |-> Str("Boston Common Garage"),
         address |-> Str("0 Charles St, Boston, MA"),
         lat |-> Num(423551), lng |-> Num(-710657), state |-> Str("MA"),
         connectorType |-> Str("J1772"), connectorId |-> Num(2),
         access |-> Str("Public"), hours |-> Str("24/7"),
         cost |-> Str("$2/hour"), network |-> Str("EVgo") ],
       [ id |-> Str("sample-3"), name |-> Str("Providence Place Mall"),
         address |-> Str("1 Providence Place, Providence, RI"),
         lat |-> Num(418301), lng |-> Num(-714150), state |-> Str("RI"),
         connectorType |-> Str("J1772"), connectorId |-> Num(2),
         access |-> Str("Public"), hours |-> Str("Mall hours"),
         cost |-> Str("Free while shopping"),
         network |-> Str("Tesla Destination") ] >>

\* the count-by-state loop of save_charging_data
RECURSIVE PlugByState(_, _, _)
PlugByState(sts, i, acc) ==
    IF i > Len(sts)
    THEN acc
    ELSE LET state == Get(sts[i], "state", Str("Unknown"))
             zeroed == IF state \notin DOMAIN acc
                       THEN (state :> 0) @@ acc ELSE acc
         IN  PlugByState(sts, i + 1, [zeroed EXCEPT ![state] = @ + 1])

\* the document save_charging_data dumps (lastUpdated left out)
SaveChargingDataOutput(sts) ==
    [ stations |-> sts,
      metadata |-> [ source         |->
                         "PlugShare (sample data - replace with actual scrape)",
                     connectorTypes |-> CONNECTOR_TYPES,
                     totalStations  |-> Len(sts),
                     byState        |-> PlugByState(sts, 1, <<>>) ] ]

---------------------------------------------------------------------------
(* Inputs: what the upstream API may answer *)

SeqsUpTo(S, n) == UNION {[1..k -> S] : k \in 0..n}

\* connector identifiers of the upstream vocabulary: a NEMA outlet, J1772,
\* the DC fast combo plug whose name begins with J1772, and CHAdeMO
ConnectorIds == {NEMA515, J1772, J1772COMBO, CHADEMO}

\* the order the upstream vocabulary is listed in
Rank(c) ==
    CASE c = NEMA515    -> 1
      [] c = J1772      -> 2
      [] c = J1772COMBO -> 3
      [] c = CHADEMO    -> 4

\* connector lists: set-like (no identifier twice), each set of identifiers
\* in the vocabulary's order and in the reverse order
ConnectorLists ==
    {l \in SeqsUpTo(ConnectorIds, MaxConnectors) :
        \/ \A i, j \in 1..Len(l) : i < j => Rank(l[i]) < Rank(l[j])
        \/ \A i, j \in 1..Len(l) : i < j => Rank(l[i]) > Rank(l[j])}

\* a raw record with every field present
BaseRaw ==
    [ id                  |-> Num(101),
      station_name        |-> Str("Town Hall"),
      street_address      |-> Str("1 Main St"),
      city                |-> Str("Salem"),
      state               |-> Str("MA"),
      zip                 |-> Str("01970"),
      latitude            |-> Num(42),
      longitude           |-> Num(-71),
      station_phone       |-> Str("555-0100"),
      access_days_time    |-> Str("24 hours daily"),
      ev_pricing          |-> Str("Free"),
      ev_network          |-> Str("ChargePoint Network"),
      ev_connector_types  |-> List(<<J1772>>),
      ev_level1_evse_num  |-> Num(1),
      ev_level2_evse_num  |-> Num(2),
      ev_dc_fast_num      |-> Num(1),
      facility_type       |-> Str("MUNI_GOV"),
      date_last_confirmed |-> Str("2024-01-01") ]

RawFields == DOMAIN BaseRaw
OptionalFields == RawFields \ {"id"}

Without(r, f) == [k \in DOMAIN r \ {f} |-> r[k]]

\* records that differ in their connector list
ConnectorRecords ==
    {[BaseRaw EXCEPT !["ev_connector_types"] = List(l)] : l \in ConnectorLists}

\* records that differ from BaseRaw in one field (absent, null, or another
\* value), the record with only an id, the record with every optional field
\* null, and a record without id
FieldRecords ==
    {Without(BaseRaw, f) : f \in RawFields}
    \cup {[BaseRaw EXCEPT ![f] = None] : f \in OptionalFields}
    \cup {[BaseRaw EXCEPT !["state"] = Str(s)] : s \in {"", "CT"}}
    \cup {[BaseRaw EXCEPT !["ev_level2_evse_num"] = Num(0)]}
    \cup {[k \in {"id"} |-> BaseRaw[k]]}
    \cup {[k \in RawFields |-> IF k = "id" THEN BaseRaw[k] ELSE None]}

RawLists ==
    SeqsUpTo(ConnectorRecords, MaxStations)
    \cup SeqsUpTo(FieldRecords, MaxStations)

Bodies ==
    {[total_results |-> Num(Len(l)), fuel_stations |-> l] : l \in RawLists}
    \cup {[k \in {"total_results"} |-> Num(0)]}
    \cup {[k \in {"fuel_stations"} |-> <<>>]}

\* a status other than 200 comes with a short body
ErrorBodies ==
    {b \in Bodies : Len(Get(b, "fuel_stations", <<>>)) <= 1}

\* an answer of status 200, an answer of another status, or no answer at
\* all (requests.get raises)
Responses ==
    [status : {200}, body : Bodies, exc : {"none"}]
    \cup [status : {503}, body : ErrorBodies, exc : {"none"}]
    \cup [status : {0}, body : {[k \in {"total_results"} |-> Num(0)]},
          exc : {"ConnectionError"}]

---------------------------------------------------------------------------
(* The state machine *)

Absent == [t |-> "absent"]

Init ==
    /\ response \in Responses
    /\ pc = "fetch"
    /\ err = "none"
    /\ data = None
    /\ stations = <<>>
    /\ ebike_friendly = <<>>
    /\ saved = <<>>
    /\ files = [p \in {AllPath, EbikePath} |-> Absent]
    /\ plug_pc = "start"
    /\ plug_saved = <<>>

\* the guard of main also giving up on an empty station list
MutMainAborts(d) ==
    \/ ~Truthy(d)
    \/ d.t = "dict" /\ Get(d.d, "fuel_stations", <<>>) = <<>>

\* main, line 177: `if not data`
MainAborts(d) == ~Truthy(d)

\* main, lines 176-178: data = fetch_all_stations(); if not data: return
MainFetch ==
    /\ pc = "fetch"
    /\ LET r == FetchAllStations(response)
       IN  IF ~r.ok
           THEN pc' = "raised" /\ err' = r.exc /\ data' = data
           ELSE IF MainAborts(r.val)
                THEN pc' = "returned" /\ err' = err /\ data' = r.val
                ELSE pc' = "process" /\ err' = err /\ data' = r.val
    /\ UNCHANGED <<response, stations, ebike_friendly, saved, files,
                   plug_pc, plug_saved>>

\* main, line 181: stations = process_stations(data)
MainProcess ==
    /\ pc = "process"
    /\ LET r == ProcessStations(data.d)
       IN  IF ~r.ok
           THEN pc' = "raised" /\ err' = r.exc /\ stations' = stations
           ELSE pc' = "save_all" /\ err' = err /\ stations' = r.val
    /\ UNCHANGED <<response, data, ebike_friendly, saved, files,
                   plug_pc, plug_saved>>

\* main, line 185: save_stations(stations, 'data/charging_stations_all.json')
MainSaveAll ==
    /\ pc = "save_all"
    /\ LET output == SaveStationsOutput(stations)
       IN  /\ saved' = Append(saved, [path |-> AllPath, output |-> output])
           /\ files' = [files EXCEPT ![AllPath] = output]
    /\ IF SaveStationsRaises(stations)
       THEN pc' = "raised" /\ err' = "TypeError"
       ELSE pc' = "filter" /\ err' = err
    /\ UNCHANGED <<response, data, stations, ebike_friendly,
                   plug_pc, plug_saved>>

\* main, line 188: ebike_friendly = filter_ebike_friendly(stations)
MainFilter ==
    /\ pc = "filter"
    /\ ebike_friendly' = FilterEbikeFriendly(stations)
    /\ pc' = "save_ebike"
    /\ UNCHANGED <<response, err, data, stations, saved, files,
                   plug_pc, plug_saved>>

\* main, line 189: save_stations(ebike_friendly, 'data/charging_stations.json')
MainSaveEbike ==
    /\ pc = "save_ebike"
    /\ LET output == SaveStationsOutput(ebike_friendly)
       IN  /\ saved' = Append(saved, [path |-> EbikePath, output |-> output])
           /\ files' = [files EXCEPT ![EbikePath] = output]
    /\ IF SaveStationsRaises(ebike_friendly)
       THEN pc' = "raised" /\ err' = "TypeError"
       ELSE pc' = "done" /\ err' = err
    /\ UNCHANGED <<response, data, stations, ebike_friendly,
                   plug_pc, plug_saved>>

\* main of scrape_plugshare.py: save_charging_data(fetch_plugshare_data()),
\* to its default output_file, the path the NREL pipeline writes last.
\* The two scripts are batch programs started by hand, one at a time: the
\* PlugShare script runs once the NREL run has ended.
PlugshareMain ==
    /\ pc \in {"done", "returned", "raised"}
    /\ plug_pc = "start"
    /\ LET output == SaveChargingDataOutput(FetchPlugshareData)
       IN  /\ plug_saved' = Append(plug_saved,
                                   [path |-> EbikePath, output |-> output])
           /\ files' = [files EXCEPT ![EbikePath] = output]
    /\ plug_pc' = "done"
    /\ UNCHANGED <<response, pc, err, data, stations, ebike_friendly, saved>>

Next ==
    \/ MainFetch
    \/ MainProcess
    \/ MainSaveAll
    \/ MainFilter
    \/ MainSaveEbike
    \/ PlugshareMain

Spec == Init /\ [][Next]_vars


---------------------------------------------------------------------------
(* Properties *)

\* the raw records of this run
RawList == Get(response.body, "fuel_stations", <<>>)

\* main is past process_stations: `stations` holds its result
PostProcess == pc \in {"save_all", "filter", "save_ebike", "done"}

\* main is past filter_ebike_friendly: `ebike_friendly` holds its result
PostFilter == pc \in {"save_ebike", "done"}

\* the connector identifiers of a raw record
RawConnectors(r) ==
    IF "ev_connector_types" \in DOMAIN r THEN r["ev_connector_types"].l
    ELSE <<>>

\* an identifier that begins with the four letters NEMA
IsNemaId(c) ==
    Len(c) >= 4 /\ c[1] = "N" /\ c[2] = "E" /\ c[3] = "M" /\ c[4] = "A"

\* an identifier that begins with J1772
IsJ1772Prefixed(c) ==
    /\ Len(c) >= 5
    /\ c[1] = "J" /\ c[2] = "1" /\ c[3] = "7" /\ c[4] = "7" /\ c[5] = "2"

AnyNema(cs) == \E k \in 1..Len(cs) : IsNemaId(cs[k])
AnyJ1772(cs) == \E k \in 1..Len(cs) : cs[k] = <<"J", "1", "7", "7", "2">>

RECURSIVE SumValues(_)
SumValues(f) ==
    IF DOMAIN f = {} THEN 0
    ELSE LET k == CHOOSE x \in DOMAIN f : TRUE
         IN  f[k] + SumValues([x \in DOMAIN f \ {k} |-> f[x]])

\* C1: every processed station's chargerType is one of NEMA, J1772, Other;
\* NEMA when some connector of its raw record begins with NEMA (J1772 in the
\* list or not), J1772 when none does and J1772 is in the list, Other in
\* every remaining case, the empty list included.
C1_ChargerTypeRules ==
    PostProcess =>
        /\ Len(stations) = Len(RawList)
        /\ \A i \in 1..Len(stations) :
              LET cs == RawConnectors(RawList[i])
                  t  == stations[i].chargerType
              IN  /\ t \in {Str("NEMA"), Str("J1772"), Str("Other")}
                  /\ AnyNema(cs) => t = Str("NEMA")
                  /\ (~AnyNema(cs) /\ AnyJ1772(cs)) => t = Str("J1772")
                  /\ (~AnyNema(cs) /\ ~AnyJ1772(cs)) => t = Str("Other")

\* C1 witness: a station whose list holds a NEMA outlet and J1772 was
\* processed, and so was one with an empty list
C1_Witness ==
    /\ PostProcess
    /\ \E i \in 1..Len(stations) :
          AnyNema(RawConnectors(RawList[i])) /\ AnyJ1772(RawConnectors(RawList[i]))
    /\ \E i \in 1..Len(stations) : RawConnectors(RawList[i]) = <<>>

\* every document a save operation has written
SavedDocs ==
    {saved[i].output : i \in 1..Len(saved)}
    \cup {plug_saved[i].output : i \in 1..Len(plug_saved)}

\* the sums of C2 for one persisted document
SumsHold(doc) ==
    LET m == doc.metadata
    IN  /\ m.totalStations = Len(doc.stations)
        /\ "byState" \in DOMAIN m /\ SumValues(m.byState) = m.totalStations
        /\ "byType" \in DOMAIN m /\ SumValues(m.byType) = m.totalStations

\* C2: in every document persisted by save_stations or save_charging_data,
\* the byState counts sum to totalStations, the byType counts sum to
\* totalStations, and totalStations is the number of persisted stations.
C2_MetadataSums == \A doc \in SavedDocs : SumsHold(doc)

\* the half of C2 that is about save_stations alone
C2_SaveStationsSums ==
    \A i \in 1..Len(saved) : SumsHold(saved[i].output)

\* a station the filter is to keep: some connector begins with NEMA or J1772
KeepStation(s) ==
    \E k \in 1..Len(s.connectors.l) :
        IsNemaId(s.connectors.l[k]) \/ IsJ1772Prefixed(s.connectors.l[k])

\* C3: filter_ebike_friendly returns exactly the subsequence of the stations
\* with a connector beginning with NEMA or J1772: all of them, no other, in
\* their original order, each unchanged.
C3_FilterIsSubsequence ==
    PostFilter => ebike_friendly = SelectSeq(stations, KeepStation)

\* C3 witness: of two stations the filter dropped the first and kept the
\* second, whose only connector merely begins with J1772
C3_Witness ==
    /\ pc = "done"
    /\ Len(stations) = 2
    /\ ebike_friendly = <<stations[2]>>
    /\ stations[2].connectors.l = <<J1772COMBO>>
    /\ stations[1].connectors.l # <<>>


\* canonical field, its source field, and the defaults the documentation
\* allows for it: empty or "Unknown" for strings ("Non-Networked" too for
\* the network), 0 for the counts, null for the coordinates alone
DocumentedDefaults ==
    LET text == {Str(""), Str("Unknown")}
        row(out, src, dflt) == [out |-> out, src |-> src, dflt |-> dflt]
    IN  { row("name", "station_name", text),
          row("address", "street_address", text),
          row("city", "city", text),
          row("state", "state", text),
          row("zip", "zip", text),
          row("lat", "latitude", {None}),
          row("lng", "longitude", {None}),
          row("phone", "station_phone", text),
          row("hours", "access_days_time", text),
          row("pricing", "ev_pricing", text),
          row("network", "ev_network", text \cup {Str("Non-Networked")}),
          row("level1Count", "ev_level1_evse_num", {Num(0)}),
          row("level2Count", "ev_level2_evse_num", {Num(0)}),
          row("dcFastCount", "ev_dc_fast_num", {Num(0)}),
          row("facilityType", "facility_type", text),
          row("lastConfirmed", "date_last_confirmed", text) }

AbsentOrNull(r, f) == f \notin DOMAIN r \/ r[f] = None

\* C4: for every canonical field of a processed station, when the source
\* field is absent from the raw record or null, the station holds the
\* documented default.
C4_DefaultsForAbsentOrNull ==
    PostProcess =>
        \A i \in 1..Len(stations) : \A row \in DocumentedDefaults :
            AbsentOrNull(RawList[i], row.src)
                => stations[i][row.out] \in row.dflt

\* the half of C4 the code keeps: absent and null counts become 0, and an
\* absent string field other than phone gets its default
C4_AbsentDefaults ==
    PostProcess =>
        \A i \in 1..Len(stations) : \A row \in DocumentedDefaults :
            /\ (row.dflt = {Num(0)} /\ AbsentOrNull(RawList[i], row.src))
                  => stations[i][row.out] = Num(0)
            /\ (row.src \notin DOMAIN RawList[i] /\ row.out # "phone")
                  => stations[i][row.out] \in row.dflt

\* every raw record of the run has an id (every other field of the records
\* of RawLists is absent, null or of its type)
WellTypedInput == \A i \in 1..Len(RawList) : "id" \in DOMAIN RawList[i]

\* process_stations raised: main ended by an exception after the fetch and
\* before any save
RaisedInProcess == pc = "raised" /\ data.t = "dict" /\ saved = <<>>

\* C5: on a list of raw records that all have an id, process_stations raises
\* nothing and returns one station per raw record, in input order.
C5_NormalizationTotal ==
    (data.t = "dict" /\ WellTypedInput) =>
        /\ ~RaisedInProcess
        /\ PostProcess =>
              /\ Len(stations) = Len(RawList)
              /\ \A i \in 1..Len(stations) : stations[i].id = RawList[i].id

\* the byState bucket C6 puts a station in
StateBucket(s) ==
    IF s.state \in {None, Str("")} THEN Str("Unknown") ELSE s.state

\* the byState mapping C6 describes for a list of stations
ExpectedByState(sts) ==
    [k \in {StateBucket(sts[j]) : j \in 1..Len(sts)} |->
        Cardinality({j \in 1..Len(sts) : StateBucket(sts[j]) = k})]

\* C6: in the metadata save_stations persists, a station with an empty or
\* missing state is counted under "Unknown", any other under its state, and
\* each count is the number of stations of that state.
C6_UnknownStateBucket ==
    \A i \in 1..Len(saved) :
        LET doc == saved[i].output
        IN  /\ DOMAIN doc.metadata.byState = DOMAIN ExpectedByState(doc.stations)
            /\ \A k \in DOMAIN doc.metadata.byState :
                  doc.metadata.byState[k] = ExpectedByState(doc.stations)[k]

\* the half of C6 the code keeps: each bucket of byState counts the
\* stations whose state is the bucket's key
C6_BucketsCountStates ==
    \A i \in 1..Len(saved) :
        LET doc == saved[i].output
            by  == doc.metadata.byState
        IN  /\ DOMAIN by = {doc.stations[j].state : j \in 1..Len(doc.stations)}
            /\ \A k \in DOMAIN by :
                  by[k] = Cardinality({j \in 1..Len(doc.stations) :
                                          doc.stations[j].state = k})

\* the ingest step failed: a status other than 200, or an exception in
\* fetch_all_stations
IngestFailed ==
    \/ response.exc # "none"
    \/ response.status # 200
    \/ pc = "raised" /\ data = None

\* C7: when the ingest step fails, main stops before any persist step:
\* neither output file is written in that run.
C7_NoOutputOnUpstreamFailure ==
    IngestFailed =>
        /\ saved = <<>>
        /\ pc \in {"fetch", "returned", "raised"}
        /\ files[AllPath] = Absent
        /\ files[EbikePath] = Absent \/ plug_pc = "done"

\* C7 witness: main returned on a 503 whose body held a station
C7_Witness ==
    /\ response.status = 503
    /\ pc = "returned"
    /\ Len(RawList) = 1
    /\ "total_results" \in DOMAIN response.body

\* the ingest step succeeded with zero records
ZeroRecordRun ==
    data.t = "dict" /\ Get(data.d, "fuel_stations", <<>>) = <<>>

EmptyDoc(doc) ==
    /\ doc.stations = <<>>
    /\ doc.metadata.totalStations = 0
    /\ DOMAIN doc.metadata.byState = {}
    /\ DOMAIN doc.metadata.byType = {}

\* C8: a run whose ingest returns zero records is no error: main neither
\* returns early nor raises, and both persisted outputs have an empty
\* stations list, totalStations 0, and empty byState and byType.
C8_EmptyResultPersisted ==
    ZeroRecordRun =>
        /\ pc \notin {"returned", "raised"}
        /\ err = "none"
        /\ \A i \in 1..Len(saved) : EmptyDoc(saved[i].output)
        /\ pc = "done" =>
              /\ Len(saved) = 2
              /\ saved[1].path = AllPath /\ saved[2].path = EbikePath
              /\ files[AllPath] = saved[1].output

\* C8 witness: a zero-record run wrote both outputs
C8_Witness ==
    /\ ZeroRecordRun
    /\ pc = "done"
    /\ Len(saved) = 2
    /\ EmptyDoc(files[AllPath])

\* C9: filtering the filter's result again changes nothing.
C9_FilterIdempotent ==
    PostFilter =>
        FilterEbikeFriendly(ebike_friendly) = ebike_friendly

\* C9 witness: the filter kept some stations and dropped others
C9_Witness ==
    /\ PostFilter
    /\ ebike_friendly # <<>>
    /\ Len(ebike_friendly) < Len(stations)

\* C10: the filter keeps a station exactly when its chargerType is NEMA or
\* J1772, so no station of the e-bike-friendly output is Other and its byType
\* has no Other bucket.
C10_FilterAgreesWithClassifier ==
    /\ PostFilter =>
          /\ \A i \in 1..Len(stations) :
                (\E j \in 1..Len(ebike_friendly) : ebike_friendly[j] = stations[i])
                    <=> stations[i].chargerType \in {Str("NEMA"), Str("J1772")}
          /\ \A j \in 1..Len(ebike_friendly) :
                ebike_friendly[j].chargerType # Str("Other")
    /\ \A i \in 1..Len(saved) :
          saved[i].path = EbikePath
              => Str("Other") \notin DOMAIN saved[i].output.metadata.byType

\* the half of C10 the code keeps: every station classified NEMA or J1772
\* is kept by the filter
C10_ClassifiedAreKept ==
    PostFilter =>
        \A i \in 1..Len(stations) :
            stations[i].chargerType \in {Str("NEMA"), Str("J1772")}
                => \E j \in 1..Len(ebike_friendly) : ebike_friendly[j] = stations[i]

===========================================================================
